---- MODULE Spec2Model ----
(***************************************************************************)
(* ACPIProxy: the AML method-declaration scanner (find_method_declarations)*)
(* and the patch synthesis of main (filter, marker index, ACPIPatch,       *)
(* apply/undo on the config.plist patch list).                             *)
(*                                                                         *)
(* A byte is an integer 0..255.  The program keeps every byte as a two     *)
(* character upper-case hex string; that string is modelled as the pair    *)
(* of its two hex digits <<hi, lo>>.                                       *)
(***************************************************************************)
EXTENDS Integers, Sequences, FiniteSets, TLC

VARIABLES
  aml,          \* the bytes of the DSDT file
  pos,          \* aml.tell(): number of bytes already consumed
  buf,          \* method byte-buffer (hex strings)
  numread,      \* how many bytes left to read
  read_len,     \* whether or not reading length
  results,      \* records emitted so far (each a sequence of hex strings)
  starts,       \* history: file offset of the opcode of each emitted record
  rejected,     \* history: one entry per candidate dropped by the name check
  action,       \* args[0]: "apply" or "undo"
  pattern,      \* args[1]: the name pattern (character codes)
  declarations, \* main's declarations (scanned, then filtered)
  x_ind,        \* loop variable of the marker index loop
  patches,      \* the marked byte arrays chosen by the loop (or empty)
  acpi_patches, \* the ACPIPatch instances built from declarations/patches
  config,       \* ACPI/Patch list of config.plist on disk
  plist,        \* ACPI/Patch list of the plist loaded in memory
  patch_i,      \* position of the apply/undo loop in acpi_patches
  raised,       \* the exception that ended the run ("none" if none)
  log,          \* history: the apply/undo calls of the store specification
  pc            \* where the program is

vars == <<aml, pos, buf, numread, read_len, results, starts, rejected,
          action, pattern, declarations, x_ind, patches, acpi_patches,
          config, plist, patch_i, raised, log, pc>>

scanVars == <<aml, pos, buf, numread, read_len, results, starts, rejected>>
mainVars == <<action, pattern, declarations, x_ind, patches, acpi_patches,
              config, plist, patch_i, raised, log>>

(***************************************************************************)
(* Bounds of the model.                                                    *)
(***************************************************************************)
MaxStreamLen == 8
MaxDecls == 3
MaxStoreLen == 2
MaxOps == 4
MaxLongStreamLen == 14

(***************************************************************************)
(* Bytes and hex strings.                                                  *)
(***************************************************************************)
\* aml.read(1).hex().upper(): the two hex digits of a byte
ToHex(b) == <<b \div 16, b % 16>>

\* int(data, 16)
FromHex(h) == h[1] * 16 + h[2]

\* '14', the MethodOp opcode as the hex string the scanner compares with
MethodOp == <<1, 4>>

\* '58', ASCII X
MarkerX == <<5, 8>>

\* intrepr >> 5
LengthBytes_ShiftFive(intrepr) == intrepr \div 32

\* intrepr >> 6
LengthBytes(intrepr) == intrepr \div 64

\* is_valid_acpiname_char with the upper end of the a-z range left out
is_valid_acpiname_char_OpenRange(dec_ascii) ==
  \/ (dec_ascii >= 65 /\ dec_ascii <= 90)
  \/ (dec_ascii >= 97)
  \/ (dec_ascii >= 48 /\ dec_ascii <= 57)
  \/ (dec_ascii = 95)

is_valid_acpiname_char(dec_ascii) ==
  \/ (dec_ascii >= 65 /\ dec_ascii <= 90)
  \/ (dec_ascii >= 97 /\ dec_ascii <= 122)
  \/ (dec_ascii >= 48 /\ dec_ascii <= 57)
  \/ (dec_ascii = 95)

\* bytes[-4:]
LastFour(bytes) ==
  IF Len(bytes) <= 4 THEN bytes ELSE SubSeq(bytes, Len(bytes) - 3, Len(bytes))

\* the character codes of the ACPI name of a hex-string array
hexbytes_to_ascii_name(bytes) ==
  [i \in 1..Len(LastFour(bytes)) |-> FromHex(LastFour(bytes)[i])]

(***************************************************************************)
(* The scanner: one action per way through one iteration of the loop.      *)
(***************************************************************************)
\* the hex string of the byte the next read returns
data == ToHex(aml[pos + 1])
intrepr == FromHex(data)

\* the name check of an iteration that has a candidate of two or more bytes
NameCheckFails == ~read_len /\ ~is_valid_acpiname_char(intrepr)

\* the rewind left out: scanning goes on after the rejected byte
SeekAfterReject_NoRewind(prevpos) == prevpos + 1

\* aml.seek(prevpos - 1): one byte too far back
SeekAfterReject_BackTwo(prevpos) == prevpos - 1

\* aml.seek(prevpos): where the stream is positioned after a rejected name byte
SeekAfterReject(prevpos) == prevpos

\* the unfinished candidate pushed at the end of the file
ScanEOF_Flush ==
  /\ pc = "scan"
  /\ pos = Len(aml)
  /\ results' = IF buf = <<>> THEN results ELSE Append(results, buf)
  /\ starts' = IF buf = <<>> THEN starts ELSE Append(starts, pos - Len(buf))
  /\ declarations' = results'
  /\ pc' = "filter"
  /\ UNCHANGED <<aml, pos, buf, numread, read_len, rejected, action, pattern,
                 x_ind, patches, acpi_patches, config, plist, patch_i,
                 raised, log>>

ScanEOF ==
  /\ pc = "scan"
  /\ pos = Len(aml)
  /\ UNCHANGED log
  /\ declarations' = results
  /\ pc' = "filter"
  /\ UNCHANGED <<scanVars, action, pattern, x_ind, patches, acpi_patches,
                 config, plist, patch_i, raised>>

ScanSkip ==
  /\ pc = "scan"
  /\ pos < Len(aml)
  /\ Len(buf) = 0 /\ data # MethodOp
  /\ pos' = pos + 1
  /\ UNCHANGED <<aml, buf, numread, read_len, results, starts, rejected,
                 mainVars, pc>>

ScanOpcode ==
  /\ pc = "scan"
  /\ pos < Len(aml)
  /\ Len(buf) = 0 /\ data = MethodOp
  /\ buf' = Append(buf, data)
  /\ pos' = pos + 1
  /\ UNCHANGED <<aml, numread, read_len, results, starts, rejected,
                 mainVars, pc>>

ScanLeadByte ==
  /\ pc = "scan"
  /\ pos < Len(aml)
  /\ Len(buf) = 1
  /\ buf' = Append(buf, data)
  /\ numread' = IF LengthBytes(intrepr) = 0 THEN 4 ELSE LengthBytes(intrepr)
  /\ read_len' = (LengthBytes(intrepr) > 0)
  /\ pos' = pos + 1
  /\ UNCHANGED <<aml, results, starts, rejected, mainVars, pc>>

ScanReject ==
  /\ pc = "scan"
  /\ pos < Len(aml)
  /\ Len(buf) >= 2
  /\ NameCheckFails
  /\ buf' = <<>>
  /\ pos' = SeekAfterReject(pos)
  /\ rejected' = rejected \cup
       {[opcode |-> pos - Len(buf), bad |-> pos, resume |-> pos']}
  /\ UNCHANGED <<aml, numread, read_len, results, starts, mainVars, pc>>

ScanCount ==
  /\ pc = "scan"
  /\ pos < Len(aml)
  /\ Len(buf) >= 2
  /\ ~NameCheckFails
  /\ numread > 1
  /\ buf' = Append(buf, data)
  /\ numread' = numread - 1
  /\ pos' = pos + 1
  /\ UNCHANGED <<aml, read_len, results, starts, rejected, mainVars, pc>>

\* the buffer not reset after the push
ScanEmit_KeepsBuf ==
  /\ pc = "scan"
  /\ pos < Len(aml)
  /\ Len(buf) >= 2
  /\ ~NameCheckFails
  /\ ~(numread > 1)
  /\ ~read_len
  /\ results' = Append(results, Append(buf, data))
  /\ starts' = Append(starts, pos - Len(buf))
  /\ buf' = Append(buf, data)
  /\ pos' = pos + 1
  /\ UNCHANGED <<aml, numread, read_len, rejected, mainVars, pc>>

ScanEmit ==
  /\ pc = "scan"
  /\ pos < Len(aml)
  /\ Len(buf) >= 2
  /\ ~NameCheckFails
  /\ ~(numread > 1)
  /\ ~read_len
  /\ results' = Append(results, Append(buf, data))
  /\ starts' = Append(starts, pos - Len(buf))
  /\ buf' = <<>>
  /\ pos' = pos + 1
  /\ UNCHANGED <<aml, numread, read_len, rejected, mainVars, pc>>

ScanNameBegins ==
  /\ pc = "scan"
  /\ pos < Len(aml)
  /\ Len(buf) >= 2
  /\ ~NameCheckFails
  /\ ~(numread > 1)
  /\ read_len
  /\ buf' = Append(buf, data)
  /\ numread' = 4
  /\ read_len' = FALSE
  /\ pos' = pos + 1
  /\ UNCHANGED <<aml, results, starts, rejected, mainVars, pc>>

ScanNext ==
  \/ ScanEOF
  \/ ScanSkip
  \/ ScanOpcode
  \/ ScanLeadByte
  \/ ScanReject
  \/ ScanCount
  \/ ScanEmit
  \/ ScanNameBegins

(***************************************************************************)
(* The pattern matcher.  A compiled pattern is the sequence of the         *)
(* character classes of its characters.                                    *)
(***************************************************************************)
Digits == 48..57
UpperLetters == 65..90
Underscore == {95}

\* '?' translated like '*'
translate_pattern_char_QuestionAsStar(char) ==
  IF char = 43 THEN Digits
  ELSE IF char = 33 THEN Digits \cup Underscore
  ELSE IF char = 45 THEN UpperLetters
  ELSE IF char = 64 THEN UpperLetters \cup Underscore
  ELSE IF char \in {63, 42} THEN UpperLetters \cup Digits \cup Underscore
  ELSE {char}

translate_pattern_char(char) ==
  IF char = 43 THEN Digits                                     \* '+'
  ELSE IF char = 33 THEN Digits \cup Underscore                \* '!'
  ELSE IF char = 45 THEN UpperLetters                          \* '-'
  ELSE IF char = 64 THEN UpperLetters \cup Underscore          \* '@'
  ELSE IF char = 63 THEN UpperLetters \cup Digits              \* '?'
  ELSE IF char = 42 THEN UpperLetters \cup Digits \cup Underscore  \* '*'
  ELSE {char}

compile_custom_pattern(pat) ==
  [i \in 1..Len(pat) |-> translate_pattern_char(pat[i])]

\* regex.match(name): the classes match the leading characters of name
RegexMatch(regex, name) ==
  /\ Len(name) >= Len(regex)
  /\ \A i \in 1..Len(regex) : name[i] \in regex[i]

is_declaration_matching(declaration, pat) ==
  RegexMatch(compile_custom_pattern(pat), hexbytes_to_ascii_name(declaration))

filter_declarations(decls, pat) ==
  SelectSeq(decls, LAMBDA x : is_declaration_matching(x, pat))

(***************************************************************************)
(* Marking and the uniqueness check.                                       *)
(***************************************************************************)
\* the marker written one position too far to the right
mark_patched_OffByOne(byte_arr, ind) ==
  [byte_arr EXCEPT ![Len(byte_arr) - 4 + ind + 2] = MarkerX]

\* res[len(byte_arr) - 4 + ind] = '58' (Python indexes from 0)
mark_patched(byte_arr, ind) ==
  [byte_arr EXCEPT ![Len(byte_arr) - 4 + ind + 1] = MarkerX]

\* ''.join(y): the hex digits of all bytes in a row
RECURSIVE Join(_)
Join(y) == IF y = <<>> THEN <<>> ELSE Head(y) \o Join(Tail(y))

\* the list compared with itself instead of with its set
are_patches_unique_SelfCompare(ps) ==
  Len([i \in 1..Len(ps) |-> Join(ps[i])]) = Len(ps)

are_patches_unique(ps) ==
  LET strpatches == [i \in 1..Len(ps) |-> Join(ps[i])]
  IN  Len(strpatches) = Cardinality({strpatches[i] : i \in 1..Len(ps)})

\* range(1, 4) instead of range(0, 3)
MarkerIndices_FromOne == 1..3

\* range(0, 3)
MarkerIndices == 0..2

\* list(map(lambda x: mark_patched(x, x_ind), declarations))
MarkedCase(decls, ind) == [k \in 1..Len(decls) |-> mark_patched(decls[k], ind)]

\* the check inverted: "if not are_patches_unique(case)"
PassingIndices_Inverted(decls) ==
  {i \in MarkerIndices : ~are_patches_unique(MarkedCase(decls, i))}

\* the indices whose case passes the check
PassingIndices(decls) ==
  {i \in MarkerIndices : are_patches_unique(MarkedCase(decls, i))}

\* the loop running downwards: the last passing index wins
BreakIndex_Last(decls) ==
  CHOOSE i \in PassingIndices(decls) : \A j \in PassingIndices(decls) : j <= i

\* the index at which the loop breaks: the first one that passes
BreakIndex(decls) ==
  CHOOSE i \in PassingIndices(decls) : \A j \in PassingIndices(decls) : i <= j

\* the value of x_ind when the loop ends without a break
LastIndex == CHOOSE i \in MarkerIndices : \A j \in MarkerIndices : j <= i

(***************************************************************************)
(* ACPIPatch.                                                              *)
(***************************************************************************)
\* [chr(int(x, 16)) for x in a]
Chars(a) == [i \in 1..Len(a) |-> FromHex(a[i])]

\* str.encode('ascii') raises UnicodeEncodeError on a character above 127
EncodeRaises(chars) == \E i \in 1..Len(chars) : chars[i] >= 128

\* 'SSDT-', ' ' and ' to ' as character codes
CommentHead == <<83, 83, 68, 84, 45>>
CommentSpace == <<32>>
CommentTo == <<32, 116, 111, 32>>

ACPIPatch(finda, replacea, pat) ==
  IF EncodeRaises(Chars(finda)) \/ EncodeRaises(Chars(replacea))
  THEN [raised |-> "UnicodeEncodeError"]
  ELSE [raised |-> "none",
        finds |-> Join(finda),
        findb |-> Chars(finda),
        replaces |-> Join(replacea),
        replaceb |-> Chars(replacea),
        pattern |-> pat,
        comment |-> CommentHead \o pat \o CommentSpace
                      \o hexbytes_to_ascii_name(finda) \o CommentTo
                      \o hexbytes_to_ascii_name(replacea)]

\* the comment left out of the comparison
cmp_IgnoresComment(self, entry) ==
  /\ entry.Find = self.findb
  /\ entry.Replace = self.replaceb

cmp(self, entry) ==
  /\ entry.Comment = self.comment
  /\ entry.Find = self.findb
  /\ entry.Replace = self.replaceb

\* the loop starting at the second entry
find_entry_SkipsFirst(self, container) ==
  IF \E i \in 2..Len(container) : cmp(self, container[i])
  THEN CHOOSE i \in 2..Len(container) :
         /\ cmp(self, container[i])
         /\ \A j \in 2..(i - 1) : ~cmp(self, container[j])
  ELSE 0

\* the position of the first matching entry, 0 for None
find_entry(self, container) ==
  IF \E i \in 1..Len(container) : cmp(self, container[i])
  THEN CHOOSE i \in 1..Len(container) :
         /\ cmp(self, container[i])
         /\ \A j \in 1..(i - 1) : ~cmp(self, container[j])
  ELSE 0

\* the entry apply appends
NewEntry(self) ==
  [Comment |-> self.comment, Count |-> 0, Limit |-> 0, Skip |-> 0,
   Enabled |-> TRUE, Find |-> self.findb, Replace |-> self.replaceb]

\* the "already existing" check left out
apply_Unconditional(self, container) == Append(container, NewEntry(self))

apply(self, container) ==
  IF find_entry(self, container) # 0
  THEN container
  ELSE Append(container, NewEntry(self))

\* container.index(entry): the first element equal to entry
IndexOf(container, entry) ==
  CHOOSE i \in 1..Len(container) :
    /\ container[i] = entry
    /\ \A j \in 1..(i - 1) : container[j] # entry

\* container.pop(i)
Pop(container, i) ==
  SubSeq(container, 1, i - 1) \o SubSeq(container, i + 1, Len(container))

\* container.pop() instead of container.pop(index): the last entry goes
undo_PopsLast(self, container) ==
  IF find_entry(self, container) # 0
  THEN Pop(container, Len(container))
  ELSE container

undo(self, container) ==
  IF find_entry(self, container) # 0
  THEN Pop(container, IndexOf(container, container[find_entry(self, container)]))
  ELSE container

(***************************************************************************)
(* main, from the filter on.                                               *)
(***************************************************************************)
Filter ==
  /\ pc = "filter"
  /\ UNCHANGED log
  /\ declarations' = filter_declarations(declarations, pattern)
  /\ pc' = "synth"
  /\ UNCHANGED <<scanVars, action, pattern, x_ind, patches, acpi_patches,
                 config, plist, patch_i, raised>>

\* the whole marker index loop
Synthesize ==
  /\ pc = "synth"
  /\ UNCHANGED log
  /\ IF PassingIndices(declarations) # {}
     THEN /\ x_ind' = BreakIndex(declarations)
          /\ patches' = MarkedCase(declarations, BreakIndex(declarations))
     ELSE /\ x_ind' = LastIndex
          /\ patches' = <<>>
  /\ pc' = "build"
  /\ UNCHANGED <<scanVars, action, pattern, declarations, acpi_patches,
                 config, plist, patch_i, raised>>

\* the list comprehension that builds the ACPIPatch instances
BuildPatches ==
  /\ pc = "build"
  /\ UNCHANGED log
  /\ IF Len(declarations) > Len(patches)
     THEN \* patches[x] of an empty list
          /\ raised' = "IndexError"
          /\ pc' = "raised"
          /\ UNCHANGED acpi_patches
     ELSE LET built == [x \in 1..Len(declarations) |->
                          ACPIPatch(declarations[x], patches[x], pattern)]
          IN  IF \E x \in 1..Len(built) : built[x].raised # "none"
              THEN /\ raised' = "UnicodeEncodeError"
                   /\ pc' = "raised"
                   /\ UNCHANGED acpi_patches
              ELSE /\ acpi_patches' = built
                   /\ pc' = "readplist"
                   /\ UNCHANGED raised
  /\ UNCHANGED <<scanVars, action, pattern, declarations, x_ind, patches,
                 config, plist, patch_i>>

ReadPlist ==
  /\ pc = "readplist"
  /\ UNCHANGED log
  /\ plist' = config
  /\ patch_i' = 1
  /\ pc' = "patch"
  /\ UNCHANGED <<scanVars, action, pattern, declarations, x_ind, patches,
                 acpi_patches, config, raised>>

ApplyPatch ==
  /\ pc = "patch"
  /\ patch_i <= Len(acpi_patches)
  /\ action = "apply"
  /\ plist' = apply(acpi_patches[patch_i], plist)
  /\ UNCHANGED log
  /\ patch_i' = patch_i + 1
  /\ UNCHANGED <<scanVars, action, pattern, declarations, x_ind, patches,
                 acpi_patches, config, raised, pc>>

UndoPatch ==
  /\ pc = "patch"
  /\ patch_i <= Len(acpi_patches)
  /\ action # "apply"
  /\ plist' = undo(acpi_patches[patch_i], plist)
  /\ UNCHANGED log
  /\ patch_i' = patch_i + 1
  /\ UNCHANGED <<scanVars, action, pattern, declarations, x_ind, patches,
                 acpi_patches, config, raised, pc>>

WritePlist ==
  /\ pc = "patch"
  /\ patch_i > Len(acpi_patches)
  /\ UNCHANGED log
  /\ config' = plist
  /\ pc' = "done"
  /\ UNCHANGED <<scanVars, action, pattern, declarations, x_ind, patches,
                 acpi_patches, plist, patch_i, raised>>

MainNext ==
  \/ Filter
  \/ Synthesize
  \/ BuildPatches
  \/ ReadPlist
  \/ ApplyPatch
  \/ UndoPatch
  \/ WritePlist

(***************************************************************************)
(* Streams of the scanner specification.                                   *)
(***************************************************************************)
\* 0x14 MethodOp (a lead byte with no further length bytes, no name
\* character), 0x41 'A' (a name character; as a lead byte it announces one
\* further length byte), 0x80 (no name character; as a lead byte it
\* announces two further length bytes)
StreamBytes == {20, 65, 128}

Streams == UNION {[1..n -> StreamBytes] : n \in 0..MaxStreamLen}

MainAtRest ==
  /\ action = "apply"
  /\ pattern = <<42, 42, 42, 42>>
  /\ declarations = <<>>
  /\ x_ind = 0
  /\ patches = <<>>
  /\ acpi_patches = <<>>
  /\ config = <<>>
  /\ plist = <<>>
  /\ patch_i = 1
  /\ raised = "none"
  /\ log = <<>>

ScanInit ==
  /\ aml \in Streams
  /\ pos = 0
  /\ buf = <<>>
  /\ numread = 0
  /\ read_len = TRUE
  /\ results = <<>>
  /\ starts = <<>>
  /\ rejected = {}
  /\ MainAtRest
  /\ pc = "scan"

ScanSpec == ScanInit /\ [][ScanNext]_vars

\* longer files over 0x14 and 'A' alone: room for two and more records
LongStreamBytes == {20, 65}

LongStreams == UNION {[1..n -> LongStreamBytes] : n \in 0..MaxLongStreamLen}

LongScanInit ==
  /\ aml \in LongStreams
  /\ pos = 0
  /\ buf = <<>>
  /\ numread = 0
  /\ read_len = TRUE
  /\ results = <<>>
  /\ starts = <<>>
  /\ rejected = {}
  /\ MainAtRest
  /\ pc = "scan"

LongScanSpec == LongScanInit /\ [][ScanNext]_vars

(***************************************************************************)
(* Declarations, patterns and stores of the synthesis specification.  The  *)
(* run starts where the scanner has just returned: the file is the         *)
(* declarations one after the other, which is a file the scanner reads     *)
(* back as exactly these declarations.                                     *)
(***************************************************************************)
\* opcode and length bytes: one lead byte; a lead byte announcing one
\* further length byte; the same with a further length byte above 127
ModelPrefixes == {<<20, 5>>, <<20, 69, 7>>, <<20, 69, 128>>}

\* ABC1, ABC2, XBC1, AAC1
ModelNames == {<<65, 66, 67, 49>>, <<65, 66, 67, 50>>,
               <<88, 66, 67, 49>>, <<65, 65, 67, 49>>}

HexArray(bytes) == [i \in 1..Len(bytes) |-> ToHex(bytes[i])]

ModelDeclarations == {HexArray(p \o n) : p \in ModelPrefixes, n \in ModelNames}

\* 'ABC+' and '-*C+'
ModelPatterns == {<<65, 66, 67, 43>>, <<45, 42, 67, 43>>}

\* config.plist holds the record of ABC1 renamed under 'ABC+' and a record
\* of somebody else
ForeignEntry ==
  [Comment |-> <<79, 67>>, Count |-> 0, Limit |-> 0, Skip |-> 0,
   Enabled |-> TRUE, Find |-> <<1>>, Replace |-> <<2>>]

OwnEntry ==
  NewEntry(ACPIPatch(HexArray(<<20, 5, 65, 66, 67, 49>>),
                     HexArray(<<20, 5, 88, 66, 67, 49>>),
                     <<65, 66, 67, 43>>))

ModelConfigs == {<<OwnEntry, ForeignEntry>>}

DeclarationLists ==
  UNION {[1..n -> ModelDeclarations] : n \in 0..MaxDecls}

RECURSIVE FileOf(_)
FileOf(decls) ==
  IF decls = <<>> THEN <<>> ELSE Chars(Head(decls)) \o FileOf(Tail(decls))

RECURSIVE OffsetsOf(_, _)
OffsetsOf(decls, at) ==
  IF decls = <<>> THEN <<>>
  ELSE <<at>> \o OffsetsOf(Tail(decls), at + Len(Head(decls)))

MainInit ==
  /\ declarations \in DeclarationLists
  /\ action \in {"apply", "undo"}
  /\ pattern \in ModelPatterns
  /\ config \in ModelConfigs
  /\ aml = FileOf(declarations)
  /\ pos = Len(aml)
  /\ buf = <<>>
  /\ numread = (IF declarations = <<>> THEN 0 ELSE 1)
  /\ read_len = (declarations = <<>>)
  /\ results = declarations
  /\ starts = OffsetsOf(declarations, 0)
  /\ rejected = {}
  /\ x_ind = 0
  /\ patches = <<>>
  /\ acpi_patches = <<>>
  /\ plist = <<>>
  /\ patch_i = 1
  /\ raised = "none"
  /\ log = <<>>
  /\ pc = "filter"

MainSpec == MainInit /\ [][MainNext]_vars

(***************************************************************************)
(* The matcher specification: filter_declarations on one declaration and   *)
(* one validated pattern.  The first two positions range over every mask   *)
(* character and a name character of every kind, the last two over fewer.  *)
(***************************************************************************)
\* + ! - @ ? * A 1 _
LeadPatternChars == {43, 33, 45, 64, 63, 42, 65, 49, 95}

\* A B 1 _ a
LeadNameChars == {65, 66, 49, 95, 97}

\* + * A
TailPatternChars == {43, 42, 65}

\* A 1 a
TailNameChars == {65, 49, 97}

MatchPatterns ==
  {<<a, b, c, d>> : a \in LeadPatternChars, b \in LeadPatternChars,
                    c \in TailPatternChars, d \in TailPatternChars}

MatchNames ==
  {<<a, b, c, d>> : a \in LeadNameChars, b \in LeadNameChars,
                    c \in TailNameChars, d \in TailNameChars}

MatchInit ==
  /\ pattern \in MatchPatterns
  /\ \E n \in MatchNames : declarations = <<HexArray(<<20, 5>> \o n)>>
  /\ action = "apply"
  /\ config \in ModelConfigs
  /\ aml = FileOf(declarations)
  /\ pos = Len(aml)
  /\ buf = <<>>
  /\ numread = 1
  /\ read_len = FALSE
  /\ results = declarations
  /\ starts = OffsetsOf(declarations, 0)
  /\ rejected = {}
  /\ x_ind = 0
  /\ patches = <<>>
  /\ acpi_patches = <<>>
  /\ plist = <<>>
  /\ patch_i = 1
  /\ raised = "none"
  /\ log = <<>>
  /\ pc = "filter"

MatchSpec == MatchInit /\ [][Filter]_vars

(***************************************************************************)
(* The whole run: main from its argument checks to the written plist.      *)
(***************************************************************************)
\* [A-Z0-9_+!\-@?*]
PatternAlphabet == UpperLetters \cup Digits \cup {95, 43, 33, 45, 64, 63, 42}

\* re.compile('[A-Z0-9_+!\-@?*]{4}').match(pattern)
PatternIsValid(pat) == RegexMatch([i \in 1..4 |-> PatternAlphabet], pat)

\* the argument checks of main; folder_ok stands for the OpenCore folder,
\* the DSDT file and iasl all being found
CheckArgs ==
  /\ pc = "args"
  /\ \E folder_ok \in BOOLEAN :
       pc' = IF action \notin {"apply", "undo"} THEN "exit"
             ELSE IF ~PatternIsValid(pattern) THEN "exit"
             ELSE IF ~folder_ok THEN "exit"
             ELSE "scan"
  /\ UNCHANGED <<scanVars, action, pattern, declarations, x_ind, patches,
                 acpi_patches, config, plist, patch_i, raised, log>>

Next ==
  \/ CheckArgs
  \/ ScanNext
  \/ MainNext

\* ABC+  -*C+  ABC+E  AB+  aBC+
ArgPatterns ==
  {<<65, 66, 67, 43>>, <<45, 42, 67, 43>>, <<65, 66, 67, 43, 69>>,
   <<65, 66, 43>>, <<97, 66, 67, 43>>}

\* files with a skipped byte, a rejected candidate, a two-byte length
\* prefix, two declarations told apart at one position, twins, and none
ArgStreams ==
  {<<>>,
   <<65, 20, 20, 128, 20, 69, 7, 65, 66, 67, 49>>,
   <<20, 5, 65, 66, 67, 49, 20, 5, 65, 66, 67, 50>>,
   <<20, 5, 65, 66, 67, 49, 20, 5, 65, 66, 67, 49>>}

Init ==
  /\ aml \in ArgStreams
  /\ action \in {"apply", "undo", "list"}
  /\ pattern \in ArgPatterns
  /\ config \in ModelConfigs
  /\ pos = 0
  /\ buf = <<>>
  /\ numread = 0
  /\ read_len = TRUE
  /\ results = <<>>
  /\ starts = <<>>
  /\ rejected = {}
  /\ declarations = <<>>
  /\ x_ind = 0
  /\ patches = <<>>
  /\ acpi_patches = <<>>
  /\ plist = <<>>
  /\ patch_i = 1
  /\ raised = "none"
  /\ log = <<>>
  /\ pc = "args"

Spec == Init /\ [][Next]_vars

(***************************************************************************)
(* The store specification: ACPIPatch.apply and ACPIPatch.undo called in   *)
(* any order, with any of the patches below, on a loaded patch list.       *)
(***************************************************************************)
\* ABC1 renamed to XBC1 under 'ABC+', and the same bytes under '-*C+' (a
\* patch that differs from the first in its comment alone)
PatchABC ==
  ACPIPatch(HexArray(<<20, 5, 65, 66, 67, 49>>),
            HexArray(<<20, 5, 88, 66, 67, 49>>), <<65, 66, 67, 43>>)

PatchWild ==
  ACPIPatch(HexArray(<<20, 5, 65, 66, 67, 49>>),
            HexArray(<<20, 5, 88, 66, 67, 49>>), <<45, 42, 67, 43>>)

StorePatches == {PatchABC, PatchWild}

\* what a patch list may hold: the entries of the two patches, the entry
\* of PatchABC switched off by hand, and entries that differ from it in
\* Find alone or in Replace alone
StoreEntries ==
  {NewEntry(PatchABC),
   NewEntry(PatchWild),
   [NewEntry(PatchABC) EXCEPT !.Enabled = FALSE],
   [NewEntry(PatchABC) EXCEPT !.Find = <<1>>],
   [NewEntry(PatchABC) EXCEPT !.Replace = <<2>>]}

ModelStores == UNION {[1..n -> StoreEntries] : n \in 0..MaxStoreLen}

StoreApply ==
  /\ pc = "store"
  /\ Len(log) < MaxOps
  /\ \E d \in StorePatches :
       /\ plist' = apply(d, plist)
       /\ log' = Append(log, [op |-> "apply", who |-> d,
                              before |-> plist, after |-> plist'])
  /\ UNCHANGED <<scanVars, action, pattern, declarations, x_ind, patches,
                 acpi_patches, config, patch_i, raised, pc>>

StoreUndo ==
  /\ pc = "store"
  /\ Len(log) < MaxOps
  /\ \E d \in StorePatches :
       /\ plist' = undo(d, plist)
       /\ log' = Append(log, [op |-> "undo", who |-> d,
                              before |-> plist, after |-> plist'])
  /\ UNCHANGED <<scanVars, action, pattern, declarations, x_ind, patches,
                 acpi_patches, config, patch_i, raised, pc>>

StoreNext ==
  \/ StoreApply
  \/ StoreUndo

ScanAtRest ==
  /\ aml = <<>>
  /\ pos = 0
  /\ buf = <<>>
  /\ numread = 0
  /\ read_len = TRUE
  /\ results = <<>>
  /\ starts = <<>>
  /\ rejected = {}

StoreInit ==
  /\ ScanAtRest
  /\ action = "apply"
  /\ pattern = <<42, 42, 42, 42>>
  /\ declarations = <<>>
  /\ x_ind = 0
  /\ patches = <<>>
  /\ acpi_patches = <<>>
  /\ config = <<>>
  /\ plist \in ModelStores
  /\ patch_i = 1
  /\ raised = "none"
  /\ log = <<>>
  /\ pc = "store"

StoreSpec == StoreInit /\ [][StoreNext]_vars

(***************************************************************************)
(* Properties.                                                             *)
(***************************************************************************)
IdentifierChars == (65..90) \cup (97..122) \cup (48..57) \cup {95}

PairwiseDistinct(s) ==
  \A k, l \in 1..Len(s) : k # l => s[k] # s[l]

\* a hex-string array with '58' at name position i (0..3)
WithMarker(d, i) == [d EXCEPT ![Len(d) - 3 + i] = <<5, 8>>]

MarkedAt(ds, i) == [k \in 1..Len(ds) |-> WithMarker(ds[k], i)]

\* the marker index loop has run
AfterSynth == pc \in {"build", "readplist", "patch", "done", "raised"}

\* the ACPIPatch instances have been built
Produced == pc \in {"readplist", "patch", "done"}

\* a well-formed method declaration begins at file offset p
DeclAt(p) ==
  /\ p + 2 <= Len(aml)
  /\ aml[p + 1] = 20
  /\ p + 2 + (aml[p + 2] \div 64) + 4 <= Len(aml)
  /\ \A j \in 1..4 : aml[p + 2 + (aml[p + 2] \div 64) + j] \in IdentifierChars

StartOffsets == {starts[k] : k \in 1..Len(starts)}

\* C1: every record the scanner has emitted ends in 4 bytes that are all
\* identifier characters (A-Z, a-z, 0-9, _).
C1_NameBytesAreIdentifierChars ==
  \A k \in 1..Len(results) :
    /\ Len(results[k]) >= 4
    /\ \A j \in 0..3 :
         FromHex(results[k][Len(results[k]) - j]) \in IdentifierChars

\* a scan that dropped a candidate and emitted a record has returned
C1_Witness ==
  /\ pc = "filter"
  /\ Len(results) >= 1
  /\ rejected # {}

\* C2 (as claimed): a candidate dropped by the name check makes the scanner
\* resume at the byte right after the candidate's opcode, so that every
\* well-formed declaration whose opcode lies inside the dropped candidate's
\* span is emitted by the end of the scan.
C2_ResumesAfterOpcode ==
  \A x \in rejected :
    /\ x.resume = x.opcode + 1
    /\ pc = "filter" =>
         \A p \in (x.opcode + 1)..x.bad : DeclAt(p) => p \in StartOffsets

\* C2 (amended): a candidate dropped by the name check makes the scanner
\* resume at the rejected byte itself, which lies at least two bytes after
\* the candidate's opcode; a well-formed declaration whose opcode is that
\* rejected byte is emitted by the end of the scan.
C2_ResumesAtRejectedByte ==
  \A x \in rejected :
    /\ x.resume = x.bad
    /\ x.bad >= x.opcode + 2
    /\ (pc = "filter" /\ DeclAt(x.bad)) => x.bad \in StartOffsets

\* a candidate was dropped at a byte that begins a well-formed declaration,
\* and the scan has returned
C2_Witness ==
  /\ pc = "filter"
  /\ \E x \in rejected : DeclAt(x.bad) /\ x.bad \in StartOffsets

\* C3 (as claimed): when no index in 0..2 makes the marked declarations
\* pairwise distinct, the run raises nothing, its patch list is empty and
\* the store keeps its records.
C3_NoUniqueIndexIsSilent ==
  (/\ AfterSynth
   /\ \A i \in 0..2 : ~PairwiseDistinct(MarkedAt(declarations, i)))
  => /\ raised = "none"
     /\ patches = <<>>
     /\ acpi_patches = <<>>
     /\ config \in ModelConfigs

\* C4 (as claimed): for every record the scanner has emitted, building its
\* ACPIPatch raises nothing and findb is the record's bytes as they stand
\* in the file.
C4_DescriptorNeverRaises ==
  \A k \in 1..Len(results) :
    LET p == ACPIPatch(results[k], mark_patched(results[k], 0), pattern)
    IN  /\ p.raised = "none"
        /\ p.findb = SubSeq(aml, starts[k] + 1, starts[k] + Len(results[k]))

\* C5: in a non-empty list of built patches, the replaceb of any two
\* patches differ, and so do their findb.
C5_ReplaceBytesDistinct ==
  (Produced /\ acpi_patches # <<>>) =>
    \A k, l \in 1..Len(acpi_patches) :
      k # l => /\ acpi_patches[k].replaceb # acpi_patches[l].replaceb
               /\ acpi_patches[k].findb # acpi_patches[l].findb

\* two or more patches were written after index 0 had failed the check
C5_Witness ==
  /\ pc = "done"
  /\ Len(acpi_patches) >= 2
  /\ x_ind >= 1

\* C6 (as claimed): the modified names (last 4 bytes of replaceb) of the
\* built patches are pairwise distinct.
C6_ModifiedNamesDistinct ==
  Produced =>
    \A k, l \in 1..Len(acpi_patches) :
      k # l => LastFour(acpi_patches[k].replaceb)
                 # LastFour(acpi_patches[l].replaceb)

\* C6 (amended): two built patches with the same modified name have
\* different opcode/length bytes in front of the name.
C6_SameNameMeansOtherPrefix ==
  Produced =>
    \A k, l \in 1..Len(acpi_patches) :
      (/\ k # l
       /\ LastFour(acpi_patches[k].replaceb) = LastFour(acpi_patches[l].replaceb))
      => SubSeq(acpi_patches[k].findb, 1, Len(acpi_patches[k].findb) - 4)
           # SubSeq(acpi_patches[l].findb, 1, Len(acpi_patches[l].findb) - 4)

\* two patches carrying the same modified name were written
C6_Witness ==
  /\ pc = "done"
  /\ \E k, l \in 1..Len(acpi_patches) :
       /\ k # l
       /\ LastFour(acpi_patches[k].replaceb) = LastFour(acpi_patches[l].replaceb)

\* the matched declarations are ABC1 and ABC2 behind the same prefix
IsABC1ABC2(ds) ==
  /\ Len(ds) = 2
  /\ Len(ds[1]) = Len(ds[2])
  /\ SubSeq(ds[1], 1, Len(ds[1]) - 4) = SubSeq(ds[2], 1, Len(ds[2]) - 4)
  /\ hexbytes_to_ascii_name(ds[1]) = <<65, 66, 67, 49>>
  /\ hexbytes_to_ascii_name(ds[2]) = <<65, 66, 67, 50>>

DifferOnlyAtLast(ds) ==
  /\ Len(ds) >= 2
  /\ \A k, l \in 1..Len(ds) :
       k # l => /\ Len(ds[k]) = Len(ds[l])
                /\ ds[k] # ds[l]
                /\ \A j \in 1..(Len(ds[k]) - 1) : ds[k][j] = ds[l][j]

\* C8 (as claimed): distinct matched declarations that differ only at name
\* position 3 leave the loop with an empty patch list.
C8_LastCharOnlyYieldsEmpty ==
  (AfterSynth /\ DifferOnlyAtLast(declarations)) => patches = <<>>

\* C8 (amended): distinct matched declarations that differ only at name
\* position 3 get index 0 and one patch each, pairwise distinct, and the
\* run does not fail for want of an index.
C8_LastCharOnlyYieldsIndexZero ==
  (AfterSynth /\ DifferOnlyAtLast(declarations)) =>
    /\ x_ind = 0
    /\ Len(patches) = Len(declarations)
    /\ PairwiseDistinct(patches)
    /\ raised # "IndexError"

\* patches for declarations that differ only at name position 3 were written
C8_Witness ==
  /\ pc = "done"
  /\ DifferOnlyAtLast(declarations)
  /\ Len(acpi_patches) = Len(declarations)

\* C9 (as claimed): replaceb of every built patch differs from its findb in
\* exactly one byte position.
C9_ExactlyOneByteRenamed ==
  Produced =>
    \A k \in 1..Len(acpi_patches) :
      Cardinality({j \in 1..Len(acpi_patches[k].findb) :
                     acpi_patches[k].findb[j] # acpi_patches[k].replaceb[j]}) = 1

\* C10: the k-th built patch belongs to the k-th matched declaration: its
\* findb are that declaration's bytes, its replaceb has the same length,
\* holds 'X' (88) at position length - 4 + x_ind and equals findb elsewhere.
C10_OnlyMarkedPositionChanges ==
  Produced =>
    /\ Len(acpi_patches) = Len(declarations)
    /\ \A k \in 1..Len(acpi_patches) :
         LET f == acpi_patches[k].findb
             r == acpi_patches[k].replaceb
             d == declarations[k]
             m == Len(f) - 3 + x_ind
         IN  /\ Len(f) = Len(d)
             /\ \A j \in 1..Len(d) : f[j] = d[j][1] * 16 + d[j][2]
             /\ Len(r) = Len(f)
             /\ r[m] = 88
             /\ \A j \in 1..Len(f) : j # m => r[j] = f[j]

\* patches of different lengths were written with a marker index above 0
C10_Witness ==
  /\ pc = "done"
  /\ x_ind >= 1
  /\ \E k, l \in 1..Len(acpi_patches) :
       Len(acpi_patches[k].findb) # Len(acpi_patches[l].findb)

\* the store record r is the record of patch d
IsRecordOf(r, d) ==
  /\ r.Comment = d.comment
  /\ r.Find = d.findb
  /\ r.Replace = d.replaceb

RecordsOf(store, d) == SelectSeq(store, LAMBDA r : IsRecordOf(r, d))

OtherRecords(store, d) == SelectSeq(store, LAMBDA r : ~IsRecordOf(r, d))

\* calls i .. i+n-1 of the log are all op
AllOp(i, n, op) == \A j \in 0..(n - 1) : log[i + j].op = op

\* calls i+n .. i+2n-1 are made with the same patches, in the same order,
\* as calls i .. i+n-1
SamePatchesAgain(i, n) ==
  \A j \in 0..(n - 1) : log[i + n + j].who = log[i + j].who

\* C11: applying a list of patches and then the same list again leaves the
\* patch list as it was after the first pass; no call of the second pass
\* changes the list.
C11_ApplyIsIdempotent ==
  \A n \in 1..Len(log) : \A i \in 1..Len(log) :
    (/\ i + 2 * n - 1 <= Len(log)
     /\ AllOp(i, 2 * n, "apply")
     /\ SamePatchesAgain(i, n))
    => /\ log[i + 2 * n - 1].after = log[i + n - 1].after
       /\ \A j \in n..(2 * n - 1) : log[i + j].after = log[i + j].before

\* two different patches were applied, both appended a record, and both
\* were applied again
C11_Witness ==
  /\ Len(log) >= 4
  /\ AllOp(1, 4, "apply")
  /\ SamePatchesAgain(1, 2)
  /\ log[1].who # log[2].who
  /\ Len(log[2].after) = Len(log[1].before) + 2

\* calls i .. i+n-1 apply a list of patches and calls i+n .. i+2n-1 undo
\* the same list
ApplyThenUndo(i, n) ==
  /\ i + 2 * n - 1 <= Len(log)
  /\ AllOp(i, n, "apply")
  /\ AllOp(i + n, n, "undo")
  /\ SamePatchesAgain(i, n)

\* C12 (as claimed): applying a list of patches and then undoing the same
\* list leaves the patch list as it was before the apply, whatever the
\* list held.
C12_UndoRestoresAnyStore ==
  \A n \in 1..Len(log) : \A i \in 1..Len(log) :
    ApplyThenUndo(i, n) => log[i + 2 * n - 1].after = log[i].before

\* C12 (amended): the same, for a patch list that held no record of any of
\* the applied patches before the apply.
C12_UndoRestoresStoreWithoutRecords ==
  \A n \in 1..Len(log) : \A i \in 1..Len(log) :
    (/\ ApplyThenUndo(i, n)
     /\ \A j \in 0..(n - 1) : RecordsOf(log[i].before, log[i + j].who) = <<>>)
    => log[i + 2 * n - 1].after = log[i].before

\* two different patches were applied to a non-empty list that held no
\* record of either, and then undone
C12_Witness ==
  /\ Len(log) >= 4
  /\ ApplyThenUndo(1, 2)
  /\ log[1].who # log[2].who
  /\ log[1].before # <<>>
  /\ \A j \in 0..1 : RecordsOf(log[1].before, log[1 + j].who) = <<>>

\* C13: a call of apply or undo with patch d leaves the records that differ
\* from d in Comment, Find or Replace as they were and in their order;
\* apply appends one record of d if the list held none and changes nothing
\* otherwise; undo removes the first record of d, if any, and nothing else.
C13_OnlyExactRecordsAreTouched ==
  \A k \in 1..Len(log) :
    LET d == log[k].who
        was == RecordsOf(log[k].before, d)
        is == RecordsOf(log[k].after, d)
    IN  /\ OtherRecords(log[k].after, d) = OtherRecords(log[k].before, d)
        /\ log[k].op = "apply" =>
             /\ was # <<>> => log[k].after = log[k].before
             /\ was = <<>> =>
                  /\ Len(is) = 1
                  /\ log[k].after = Append(log[k].before, is[1])
        /\ log[k].op = "undo" =>
             /\ was = <<>> => log[k].after = log[k].before
             /\ was # <<>> =>
                  /\ is = Tail(was)
                  /\ Len(log[k].after) = Len(log[k].before) - 1

\* undo removed a record from a list that also held a record equal to the
\* patch in Find and Replace, but not in Comment
C13_Witness ==
  \E k \in 1..Len(log) :
    /\ log[k].op = "undo"
    /\ Len(log[k].after) < Len(log[k].before)
    /\ \E j \in 1..Len(log[k].before) :
         /\ log[k].before[j].Find = log[k].who.findb
         /\ log[k].before[j].Replace = log[k].who.replaceb
         /\ log[k].before[j].Comment # log[k].who.comment

\* no two records of the list share Comment, Find and Replace
NoSharedTriple(store) ==
  \A i, j \in 1..Len(store) :
    (/\ store[i].Comment = store[j].Comment
     /\ store[i].Find = store[j].Find
     /\ store[i].Replace = store[j].Replace) => i = j

\* the patch list before the first call
FirstStore == IF log = <<>> THEN plist ELSE log[1].before

\* the calls made with patch d
CallsWith(d) == {k \in 1..Len(log) : log[k].who = d}

\* the last call made with patch d
LastCallWith(d) == CHOOSE k \in CallsWith(d) : \A j \in CallsWith(d) : j <= k

\* C19: if no two records of the first patch list share Comment, Find and
\* Replace, the same holds after every call; a patch whose last call was
\* apply has a record in the list, one whose last call was undo has none.
C19_NoDuplicatesAndPresence ==
  NoSharedTriple(FirstStore) =>
    /\ NoSharedTriple(plist)
    /\ \A d \in StorePatches :
         CallsWith(d) # {} =>
           /\ log[LastCallWith(d)].op = "apply" => RecordsOf(plist, d) # <<>>
           /\ log[LastCallWith(d)].op = "undo" => RecordsOf(plist, d) = <<>>

\* a record was undone, another patch was applied after it, and the list
\* started with records but without duplicates
C19_Witness ==
  /\ NoSharedTriple(FirstStore)
  /\ Len(FirstStore) = 2
  /\ Len(log) >= 3
  /\ log[1].op = "undo"
  /\ Len(log[1].after) < Len(log[1].before)
  /\ \E k \in 2..Len(log) : log[k].op = "apply" /\ log[k].who # log[1].who

\* the bytes of the file from offset p on, n of them, as hex strings
FileSlice(p, n) == [j \in 1..n |-> <<aml[p + j] \div 16, aml[p + j] % 16>>]

\* C14: when the file ends inside a candidate, the candidate is not among
\* the returned records, nothing is raised, and the returned list is the
\* list of the records that were complete before the candidate began.
C14_TruncatedCandidateDropped ==
  (pc = "filter" /\ buf # <<>>) =>
    /\ raised = "none"
    /\ declarations = results
    /\ (Len(aml) - Len(buf)) \notin StartOffsets
    /\ buf = FileSlice(Len(aml) - Len(buf), Len(buf))
    /\ \A k \in 1..Len(results) :
         /\ starts[k] + Len(results[k]) <= Len(aml) - Len(buf)
         /\ results[k] = FileSlice(starts[k], Len(results[k]))

\* the scan returned one record and left a candidate unfinished
C14_Witness ==
  /\ pc = "filter"
  /\ buf # <<>>
  /\ Len(results) >= 1

\* the number of length bytes a lead byte announces (its top two bits)
TopTwoBits(hex) == hex[1] \div 4

\* C17: every emitted record starts with 0x14 and is 6 + (lead byte >> 6)
\* bytes long; the buffer starts with 0x14, stays below that length while
\* the candidate is read, and never holds more than 9 bytes.
C17_RecordShape ==
  /\ \A k \in 1..Len(results) :
       /\ results[k][1] = <<1, 4>>
       /\ Len(results[k]) = 6 + TopTwoBits(results[k][2])
  /\ buf # <<>> => buf[1] = <<1, 4>>
  /\ Len(buf) >= 2 => Len(buf) < 6 + TopTwoBits(buf[2])
  /\ Len(buf) <= 9

\* a record was returned whose further length byte is no identifier
\* character
C17_Witness ==
  /\ pc = "filter"
  /\ \E k \in 1..Len(results) :
       /\ Len(results[k]) >= 7
       /\ (results[k][3][1] * 16 + results[k][3][2]) \notin IdentifierChars

\* twice the bytes still to read, plus one while a candidate is buffered
ScanMeasure == 2 * (Len(aml) - pos) + (IF buf = <<>> THEN 0 ELSE 1)

\* the next byte is a name byte of the candidate and no identifier character
AtRejectedByte ==
  /\ Len(buf) >= 2
  /\ ~read_len
  /\ aml[pos + 1] \notin IdentifierChars

\* C18: every iteration of the loop lowers ScanMeasure, which is never
\* negative, so the scan ends.  A rejected name byte empties the buffer and
\* leaves the cursor on that byte, at a position no earlier candidate was
\* rejected at; with an empty buffer the byte read is always consumed; the
\* cursor never moves back past the byte just read.
C18_ScanTerminates ==
  [][(pc = "scan" /\ pos < Len(aml)) =>
       /\ ScanMeasure' < ScanMeasure
       /\ ScanMeasure' >= 0
       /\ pos' >= pos
       /\ buf = <<>> =>
            /\ pos' = pos + 1
            /\ buf' \in {<<>>, <<MethodOp>>}
       /\ AtRejectedByte =>
            /\ pos' = pos
            /\ buf' = <<>>
            /\ \A x \in rejected : x.bad # pos
       /\ ~AtRejectedByte => pos' = pos + 1]_vars

\* a scan with two rejected candidates has returned
C18_Witness ==
  /\ pc = "filter"
  /\ Cardinality(rejected) >= 2

\* C20: every emitted record is the slice of the file at its start offset;
\* a record ends before the next one starts; the cursor and the buffered
\* candidate lie behind every emitted record.
C20_RecordsAreDisjointSlices ==
  /\ Len(starts) = Len(results)
  /\ \A k \in 1..Len(results) :
       /\ starts[k] >= 0
       /\ starts[k] + Len(results[k]) <= pos - Len(buf)
       /\ results[k] = FileSlice(starts[k], Len(results[k]))
  /\ \A k, l \in 1..Len(results) :
       k < l => starts[k] + Len(results[k]) <= starts[l]

\* a scan that rejected a candidate has returned two records
C20_Witness ==
  /\ pc = "filter"
  /\ Len(results) >= 2
  /\ rejected # {}

\* the table of mask characters, position by position
MaskAccepts(mask, c) ==
  CASE mask = 43 -> c \in 48..57
    [] mask = 33 -> c \in 48..57 \/ c = 95
    [] mask = 45 -> c \in 65..90
    [] mask = 64 -> c \in 65..90 \/ c = 95
    [] mask = 63 -> c \in 65..90 \/ c \in 48..57
    [] mask = 42 -> c \in 65..90 \/ c \in 48..57 \/ c = 95
    [] OTHER -> c = mask

WildcardChars == {43, 33, 45, 64, 63, 42}

\* the name of the scanned declaration, read from its last four hex strings
ScannedName ==
  [i \in 1..4 |-> results[1][Len(results[1]) - 4 + i][1] * 16
                    + results[1][Len(results[1]) - 4 + i][2]]

\* C15: the filter keeps the declaration iff each of its four name
\* characters satisfies the mask character at the same position; a lowercase
\* name character under a wildcard makes the filter drop the declaration.
C15_MatchIsPositionwise ==
  pc = "synth" =>
    /\ declarations = (IF \A i \in 1..4 : MaskAccepts(pattern[i], ScannedName[i])
                       THEN results ELSE <<>>)
    /\ (\E i \in 1..4 : /\ pattern[i] \in WildcardChars
                        /\ ScannedName[i] \in 97..122)
         => declarations = <<>>

\* a pattern with a wildcard and a literal kept a declaration
C15_Witness ==
  /\ pc = "synth"
  /\ declarations # <<>>
  /\ pattern[1] \in WildcardChars
  /\ pattern[2] \notin WildcardChars

\* main went on past its argument checks
PastArgChecks == pc \notin {"args", "exit"}

\* C16: main goes on to the scan, the filter and the store only with a
\* pattern of exactly four characters, each of the pattern alphabet.
C16_CoreOnlyWithFourCharPattern ==
  PastArgChecks =>
    /\ Len(pattern) = 4
    /\ \A i \in 1..Len(pattern) : pattern[i] \in PatternAlphabet

====
